---- MODULE Spec2Model ----
(***************************************************************************)
(* A model of hpcflow's configuration store (src/hpcflow/config.py):       *)
(* ConfigLoader loads a YAML document, selects the profile matching the    *)
(* run-time info, validates it, and lets callers get/set/unset/append/     *)
(* prepend/pop single items, writing the document back through a           *)
(* temporary file that is renamed over the configuration file.             *)
(***************************************************************************)
EXTENDS Integers, Sequences, FiniteSets, TLC

(***************************************************************************)
(* Bounds of the model.                                                    *)
(***************************************************************************)
\* longest list an append/prepend may build
MaxLen == 2
\* number of document tokens the buffered writer hands to the file at once
BufSize == 12
\* number of file-system operations the environment may make fail
MaxFaults == 1

(***************************************************************************)
(* Python values.  Every value has the same record shape so that any two   *)
(* can be compared: scalars carry their text in s, lists their elements in *)
(* items, mappings their pairs in items, a pair its key in s and its value *)
(* in items.                                                               *)
(***************************************************************************)
Val(k, s, items) == [kind |-> k, s |-> s, items |-> items]
PyNone == Val("null", "", <<>>)
PyStr(s) == Val("str", s, <<>>)
PyInt(s) == Val("int", s, <<>>)
PyBool(s) == Val("bool", s, <<>>)
PyList(items) == Val("list", "", items)
PyPair(key, v) == Val("pair", key, <<v>>)
PyMap(pairs) == Val("map", "", pairs)

RECURSIVE Canon(_)
\* Python's == identifies True with 1 and False with 0, also inside lists.
Canon(v) ==
  IF v.kind = "bool" THEN PyInt(IF v.s = "True" THEN "1" ELSE "0")
  ELSE IF v.kind = "list" THEN PyList([i \in DOMAIN v.items |-> Canon(v.items[i])])
  ELSE IF v.kind \in {"map", "pair"}
    THEN Val(v.kind, v.s, [i \in DOMAIN v.items |-> Canon(v.items[i])])
  ELSE v

\* old_value == new_value
PyEq(a, b) == Canon(a) = Canon(b)

(***************************************************************************)
(* Python dicts (insertion-ordered): sequences of [k, v] with unique keys. *)
(***************************************************************************)
Keys(m) == {m[i].k : i \in DOMAIN m}
Has(m, name) == name \in Keys(m)
Idx(m, name) == CHOOSE i \in DOMAIN m : m[i].k = name
\* m[name]; a KeyError when name is absent (callers guard with Has)
GetItem(m, name) == m[Idx(m, name)].v
\* m.get(name)
DictGet(m, name) == IF Has(m, name) THEN GetItem(m, name) ELSE PyNone
\* m[name] = v : in place for a present key, at the end for a new one
SetItem(m, name, v) ==
  IF Has(m, name) THEN [m EXCEPT ![Idx(m, name)].v = v]
  ELSE Append(m, [k |-> name, v |-> v])
\* del m[name]
DelItem(m, name) ==
  LET i == Idx(m, name) IN
  [j \in 1..(Len(m) - 1) |-> IF j < i THEN m[j] ELSE m[j + 1]]
\* equality of two dicts as mappings (order of insertion ignored)
DictEq(a, b) == {a[i] : i \in DOMAIN a} = {b[i] : i \in DOMAIN b}

(***************************************************************************)
(* The configuration document and its YAML text.  The text is a sequence   *)
(* of tokens (tuples of strings); a file holds such a sequence.            *)
(***************************************************************************)
\* shape is "ok", or "no_invocation" for a profile written without its
\* invocation block (the document then fails the file schema)
Profile(shape, inv_env, match, config) ==
  [shape |-> shape,
   invocation |-> [environment_setup |-> inv_env, match |-> match],
   config |-> config]
Doc(machine, configs) == [machine |-> machine, configs |-> configs]

RECURSIVE DumpVal(_)
RECURSIVE DumpItems(_)
DumpVal(v) ==
  IF v.kind = "list" THEN << <<"[">> >> \o DumpItems(v.items) \o << <<"]">> >>
  ELSE IF v.kind = "map" THEN << <<"{">> >> \o DumpItems(v.items) \o << <<"}">> >>
  ELSE IF v.kind = "pair" THEN << <<"p", v.s>> >> \o DumpVal(v.items[1])
  ELSE << <<"v", v.kind, v.s>> >>
DumpItems(items) ==
  IF items = <<>> THEN <<>> ELSE DumpVal(Head(items)) \o DumpItems(Tail(items))

RECURSIVE DumpDict(_, _)
DumpDict(tag, m) ==
  IF m = <<>> THEN <<>>
  ELSE << <<tag, Head(m).k>> >> \o DumpVal(Head(m).v) \o DumpDict(tag, Tail(m))

DumpProfile(e) ==
  << <<"profile", e.k>> >>
  \o (IF e.v.shape = "ok"
      THEN << <<"invocation">>, <<"environment_setup">> >>
           \o DumpVal(e.v.invocation.environment_setup)
           \o << <<"match">> >> \o DumpDict("m", e.v.invocation.match)
      ELSE <<>>)
  \o << <<"config">> >> \o DumpDict("k", e.v.config)

RECURSIVE DumpProfiles(_)
DumpProfiles(ps) ==
  IF ps = <<>> THEN <<>> ELSE DumpProfile(Head(ps)) \o DumpProfiles(Tail(ps))

\* yaml.dump(document, handle)
Dump(d) ==
  << <<"machine", d.machine>>, <<"defaults">>, <<"configs">> >>
  \o DumpProfiles(d.configs)

(***************************************************************************)
(* yaml.load: a recursive-descent reading of the tokens.  Every parse      *)
(* result is [ok, x, n]: whether it succeeded, what was read, and the      *)
(* position of the next token.                                             *)
(***************************************************************************)
Tok(t, i) == IF i \in DOMAIN t THEN t[i] ELSE <<"EOF">>

RECURSIVE ParseVal(_, _)
RECURSIVE ParseItems(_, _, _)
RECURSIVE ParsePairs(_, _, _)
ParseVal(t, i) ==
  IF Tok(t, i)[1] = "v" /\ Len(Tok(t, i)) = 3
    THEN [ok |-> TRUE, x |-> Val(Tok(t, i)[2], Tok(t, i)[3], <<>>), n |-> i + 1]
  ELSE IF Tok(t, i) = <<"[">> THEN ParseItems(t, i + 1, <<>>)
  ELSE IF Tok(t, i) = <<"{">> THEN ParsePairs(t, i + 1, <<>>)
  ELSE [ok |-> FALSE, x |-> PyNone, n |-> i]
ParsedPair(t, i, acc, key, r) ==
  IF r.ok /\ \A j \in DOMAIN acc : acc[j].s # key
    THEN ParsePairs(t, r.n, Append(acc, PyPair(key, r.x)))
    ELSE [ok |-> FALSE, x |-> PyNone, n |-> i]
\* the pairs of a mapping value up to its closing brace
ParsePairs(t, i, acc) ==
  IF Tok(t, i) = <<"}">> THEN [ok |-> TRUE, x |-> PyMap(acc), n |-> i + 1]
  ELSE IF Tok(t, i)[1] = "p" /\ Len(Tok(t, i)) = 2
    THEN ParsedPair(t, i, acc, Tok(t, i)[2], ParseVal(t, i + 1))
  ELSE [ok |-> FALSE, x |-> PyNone, n |-> i]
ParsedItem(t, i, acc, r) ==
  IF r.ok THEN ParseItems(t, r.n, Append(acc, r.x))
  ELSE [ok |-> FALSE, x |-> PyNone, n |-> i]
ParseItems(t, i, acc) ==
  IF Tok(t, i) = <<"]">> THEN [ok |-> TRUE, x |-> PyList(acc), n |-> i + 1]
  ELSE ParsedItem(t, i, acc, ParseVal(t, i))

RECURSIVE ParseDict(_, _, _, _)
ParsedEntry(tag, t, i, acc, name, r) ==
  IF r.ok /\ ~Has(acc, name)
    THEN ParseDict(tag, t, r.n, Append(acc, [k |-> name, v |-> r.x]))
    ELSE [ok |-> FALSE, x |-> <<>>, n |-> i]
\* a block of <<tag, key>> value entries; a repeated key is a parse error
ParseDict(tag, t, i, acc) ==
  IF Tok(t, i)[1] = tag /\ Len(Tok(t, i)) = 2
    THEN ParsedEntry(tag, t, i, acc, Tok(t, i)[2], ParseVal(t, i + 1))
    ELSE [ok |-> TRUE, x |-> acc, n |-> i]

NoInvocation(ok, shape, n) ==
  [ok |-> ok, shape |-> shape, env |-> PyNone, match |-> <<>>, n |-> n]

ParsedInvocation(t, i, e, m) ==
  IF e.ok /\ Tok(t, e.n) = <<"match">> /\ m.ok
    THEN [ok |-> TRUE, shape |-> "ok", env |-> e.x, match |-> m.x, n |-> m.n]
    ELSE NoInvocation(FALSE, "ok", i)

ParseMatch(t, i, e) == ParsedInvocation(t, i, e, ParseDict("m", t, e.n + 1, <<>>))

\* the invocation block of a profile, when it is there
ParseInvocation(t, i) ==
  IF Tok(t, i) = <<"invocation">>
    THEN IF Tok(t, i + 1) # <<"environment_setup">>
           THEN NoInvocation(FALSE, "ok", i)
           ELSE ParseMatch(t, i, ParseVal(t, i + 2))
    ELSE NoInvocation(TRUE, "no_invocation", i)

RECURSIVE ParseProfiles(_, _, _)
ParsedProfile(t, i, acc, name, inv, c) ==
  IF inv.ok /\ Tok(t, inv.n) = <<"config">> /\ c.ok
    THEN ParseProfiles(t, c.n,
           Append(acc, [k |-> name,
                        v |-> Profile(inv.shape, inv.env, inv.match, c.x)]))
    ELSE [ok |-> FALSE, x |-> <<>>, n |-> i]

ParseConfig(t, i, acc, name, inv) ==
  ParsedProfile(t, i, acc, name, inv, ParseDict("k", t, inv.n + 1, <<>>))

ParseProfiles(t, i, acc) ==
  IF Tok(t, i) = <<"EOF">> THEN [ok |-> TRUE, x |-> acc, n |-> i]
  ELSE IF ~(Tok(t, i)[1] = "profile" /\ Len(Tok(t, i)) = 2)
          \/ Has(acc, Tok(t, i)[2])
    THEN [ok |-> FALSE, x |-> <<>>, n |-> i]
  ELSE ParseConfig(t, i, acc, Tok(t, i)[2], ParseInvocation(t, i + 1))

EmptyDoc == Doc("", <<>>)

LoadedDoc(t, ps) ==
  IF Tok(t, 1)[1] = "machine" /\ Len(Tok(t, 1)) = 2
     /\ Tok(t, 2) = <<"defaults">> /\ Tok(t, 3) = <<"configs">> /\ ps.ok
    THEN [status |-> "ok", doc |-> Doc(Tok(t, 1)[2], ps.x)]
    ELSE [status |-> "error", doc |-> EmptyDoc]

\* yaml.load(handle): status "ok" with the document, "empty" for a file
\* without content (the loader returns None), "error" for malformed text
Load(t) ==
  IF t = <<>> THEN [status |-> "empty", doc |-> EmptyDoc]
  ELSE LoadedDoc(t, ParseProfiles(t, 4, <<>>))

(***************************************************************************)
(* Schemas.  A schema is the allowed-keys rule of the config mapping, the  *)
(* kind each key's value must have when present, and the keys that must    *)
(* be present.                                                             *)
(***************************************************************************)
Schema(allowed, kinds, required) ==
  [allowed |-> allowed, kinds |-> kinds, required |-> required]

\* get_schema("config_schema.yaml")
BuiltinSchema ==
  Schema(<<"log_directory", "environment_sources", "task_schema_sources">>,
         << <<"log_directory", "str">>, <<"environment_sources", "list">>,
            <<"task_schema_sources", "list">> >>,
         {})

Range(f) == {f[i] : i \in DOMAIN f}

\* cfg_schema.validate(data).is_valid
SchemaValid(schema, data) ==
  /\ Keys(data) \subseteq Range(schema.allowed)
  /\ schema.required \subseteq Keys(data)
  /\ \A i \in DOMAIN data :
        \A r \in Range(schema.kinds) : r[1] = data[i].k => data[i].v.kind = r[2]

\* file_schema.validate(cfg_file_dat).is_valid, on the result of yaml.load
FileSchemaValid(loaded) ==
  /\ loaded.status = "ok"
  /\ \A i \in DOMAIN loaded.doc.configs : loaded.doc.configs[i].v.shape = "ok"

\* a validation that rejects nothing
ValidateNothing(schemas, data) == TRUE

\* _validate_configured_data: no schema of the set rejects the data
ValidateConfiguredData(schemas, data) ==
  \A i \in DOMAIN schemas : SchemaValid(schemas[i], data)

RECURSIVE Concat(_)
Concat(ss) == IF ss = <<>> THEN <<>> ELSE Head(ss) \o Concat(Tail(ss))

\* cfg_keys: the allowed keys of every schema, in schema order
ConfigurableKeys(schemas) == Concat([i \in DOMAIN schemas |-> schemas[i].allowed])

(***************************************************************************)
(* Profile selection of ConfigLoader.__init__.                             *)
(***************************************************************************)
\* a matching loop that stops after the first pair of the match mapping
MatchProfileFirstPair(rti, match) ==
  IF match = <<>> THEN "match"
  ELSE IF ~Has(rti, Head(match).k) THEN "AttributeError"
  ELSE IF ~PyEq(GetItem(rti, Head(match).k), Head(match).v) THEN "nomatch"
  ELSE "match"

RECURSIVE MatchProfile(_, _)
\* the inner loop: "match", "nomatch", or "AttributeError" when the
\* run-time info has no attribute of a name that is reached
MatchProfile(rti, match) ==
  IF match = <<>> THEN "match"
  ELSE IF ~Has(rti, Head(match).k) THEN "AttributeError"
  ELSE IF ~PyEq(GetItem(rti, Head(match).k), Head(match).v) THEN "nomatch"
  ELSE MatchProfile(rti, Tail(match))

RECURSIVE SelectFrom(_, _, _)
SelectFrom(rti, configs, i) ==
  IF i > Len(configs)
    THEN [err |-> "ConfigFileInvocationIncompatibleError", key |-> "", i |-> 0]
  ELSE LET m == MatchProfile(rti, configs[i].v.invocation.match) IN
       IF m = "AttributeError" THEN [err |-> "AttributeError", key |-> "", i |-> 0]
       ELSE IF m = "match" THEN [err |-> "", key |-> configs[i].k, i |-> i]
       ELSE SelectFrom(rti, configs, i + 1)

\* the outer loop and the test after it; is_match is unbound when the
\* document has no profile
SelectProfile(rti, configs) ==
  IF configs = <<>> THEN [err |-> "UnboundLocalError", key |-> "", i |-> 0]
  ELSE SelectFrom(rti, configs, 1)

(***************************************************************************)
(* The file system: directory entries name inodes, inodes hold text.       *)
(***************************************************************************)
NIno == 5
Inodes == 1..NIno
Files == {"config.yaml", "config.yml", "config.tmp"}
Procs == {1, 2}

\* an update that writes to the configuration file itself
TmpPathInPlace(path) == path

\* Path.with_suffix(".tmp") of either configuration file name
TmpPath(path) == "config.tmp"

\* a default document whose profile asks for one working directory
DefaultConfigOneDir ==
  Doc("host",
      << [k |-> "default",
          v |-> Profile("ok", PyNone,
                  << [k |-> "working_dir", v |-> PyStr("x")] >>,
                  << [k |-> "log_directory", v |-> PyStr("logs")],
                     [k |-> "environment_sources", v |-> PyList(<<>>)],
                     [k |-> "task_schema_sources", v |-> PyList(<<>>)] >>)] >>)

DEFAULT_CONFIG ==
  Doc("host",
      << [k |-> "default",
          v |-> Profile("ok", PyNone, <<>>,
                  << [k |-> "log_directory", v |-> PyStr("logs")],
                     [k |-> "environment_sources", v |-> PyList(<<>>)],
                     [k |-> "task_schema_sources", v |-> PyList(<<>>)] >>)] >>)

VARIABLES
  dir,                \* file name -> inode (0: no such file)
  ino,                \* inode -> text
  run_time_info,      \* RUN_TIME_INFO: attribute -> value
  builtin_schema,     \* what get_schema("config_schema.yaml") returns
  extra_schema,       \* the config_schema argument: <<>> or <<schema>>
  st,                 \* per process: "init", "ready", "failed", "crashed"
  load_error,         \* per process: the error that ended the load, or ""
  pc,                 \* per process: position inside _update_config_file
  configurable_keys,  \* per process: _configurable_keys
  configured_data,    \* per process: _configured_data
  cfg_file_dat_rt,    \* per process: _cfg_file_dat_rt
  meta_data,          \* per process: _meta_data
  fd,                 \* per process: the open temporary file handle
  faults,             \* file-system operations made to fail so far
  renamed,            \* the process whose os.replace came last (0: none yet)
  call,               \* per process: the public call in progress or last ended
  resolve,            \* a call of _resolve_config_dir and the directories it sees
  workflow            \* a call of make_workflow and what it has done so far

fsvars == <<dir, ino, renamed>>
sidevars == <<resolve, workflow>>
envvars == <<run_time_info, builtin_schema, extra_schema, faults, sidevars>>
objvars == <<configurable_keys, configured_data, cfg_file_dat_rt, meta_data>>
vars == <<dir, ino, renamed, run_time_info, builtin_schema, extra_schema, faults,
          st, load_error, pc,
          configurable_keys, configured_data, cfg_file_dat_rt, meta_data, fd, call,
          resolve, workflow>>

\* the text at a path (<<>> when there is no such file)
FileText(path) == IF dir[path] = 0 THEN <<>> ELSE ino[dir[path]]
IsFile(path) == dir[path] # 0

NoFd == [ino |-> 0, off |-> 0]
NoMeta ==
  [config_dir |-> "", config_file_path |-> "", config_file_contents |-> <<>>,
   config_invocation_key |-> "", config_schemas |-> <<>>]
\* what an error carries: the keyword arguments of its construction
ErrInfo(length, index, json_str) ==
  [length |-> length, index |-> index, json_str |-> json_str]
NoInfo == ErrInfo(0, 0, "")
NoCall ==
  [op |-> "", name |-> "", value |-> PyNone, is_json |-> FALSE, index |-> 0,
   stage |-> "prepare",
   outcome |-> "none", error |-> "", info |-> NoInfo,
   ret |-> PyNone, warned |-> FALSE,
   old_value |-> PyNone, new_value |-> PyNone, is_unset |-> FALSE,
   pre_data |-> <<>>, pre_rt |-> EmptyDoc, pre_file |-> <<>>,
   io |-> 0, replaced |-> 0]

\* inodes that a directory entry or an open handle refers to
InUse(d, f) == {d[n] : n \in Files} \cup {f[p].ino : p \in Procs}
\* the inode a newly created file gets
FreshIno(d, f) == CHOOSE i \in Inodes : i \notin InUse(d, f) /\ \A j \in Inodes : j < i => j \in InUse(d, f)
\* an inode nothing refers to holds nothing
Collect(d, f, n) == [i \in Inodes |-> IF i \in InUse(d, f) THEN n[i] ELSE <<>>]

(***************************************************************************)
(* ConfigLoader.__init__                                                   *)
(***************************************************************************)
\* _resolve_config_dir: the directory every file name of the model is in
ResolveConfigDir == "config_dir"

\* _get_main_config_file: the path used, and the directory and inodes
\* after a missing file has been generated
MainConfigPath == IF IsFile("config.yaml") THEN "config.yaml" ELSE "config.yml"

GetMainConfigFile ==
  LET path == MainConfigPath IN
  IF IsFile(path) THEN [path |-> path, dir |-> dir, ino |-> ino]
  ELSE LET i == FreshIno(dir, fd) IN
       [path |-> path,
        dir |-> [dir EXCEPT ![path] = i],
        ino |-> [ino EXCEPT ![i] = Dump(DEFAULT_CONFIG)]]

\* the last step of __init__: the selected profile's config is validated
LoadSelected(loaded, sel, schemas) ==
  IF sel.err # ""
    THEN [err |-> sel.err, key |-> "", data |-> <<>>, rt |-> EmptyDoc]
  ELSE IF ~ValidateConfiguredData(schemas, loaded.doc.configs[sel.i].v.config)
    THEN [err |-> "ConfigValidationError", key |-> "", data |-> <<>>,
          rt |-> EmptyDoc]
  ELSE [err |-> "", key |-> sel.key,
        data |-> loaded.doc.configs[sel.i].v.config, rt |-> loaded.doc]

\* __init__ on the loaded file: the file schema, then the selection
LoadChecked(loaded, rti, schemas) ==
  IF loaded.status = "error"
    THEN [err |-> "ConfigFileParseError", key |-> "", data |-> <<>>,
          rt |-> EmptyDoc]
  ELSE IF ~FileSchemaValid(loaded)
    THEN [err |-> "ConfigFileValidationError", key |-> "", data |-> <<>>,
          rt |-> EmptyDoc]
  ELSE LoadSelected(loaded, SelectProfile(rti, loaded.doc.configs), schemas)

\* what __init__ computes from the text of the file: the error raised (""
\* when the load succeeds) and the attributes of the loader
LoadResult(text, rti, schemas) == LoadChecked(Load(text), rti, schemas)

\* the attributes __init__ sets, or the error it raises
LoadInto(p, path, text, schemas, r) ==
  IF r.err # ""
    THEN /\ st' = [st EXCEPT ![p] = "failed"]
         /\ load_error' = [load_error EXCEPT ![p] = r.err]
         /\ UNCHANGED objvars
    ELSE /\ st' = [st EXCEPT ![p] = "ready"]
         /\ UNCHANGED load_error
         /\ configurable_keys' =
              [configurable_keys EXCEPT ![p] = ConfigurableKeys(schemas)]
         /\ cfg_file_dat_rt' = [cfg_file_dat_rt EXCEPT ![p] = r.rt]
         /\ configured_data' = [configured_data EXCEPT ![p] = r.data]
         /\ meta_data' = [meta_data EXCEPT ![p] =
              [config_dir |-> ResolveConfigDir,
               config_file_path |-> path,
               config_file_contents |-> text,
               config_invocation_key |-> r.key,
               config_schemas |-> schemas]]

LoadFile(p, f, schemas) ==
  /\ dir' = f.dir
  /\ ino' = f.ino
  /\ UNCHANGED renamed
  /\ LoadInto(p, f.path, f.ino[f.dir[f.path]], schemas,
              LoadResult(f.ino[f.dir[f.path]], run_time_info, schemas))

LoadConfig(p) ==
  /\ st[p] = "init"
  /\ LoadFile(p, GetMainConfigFile, <<builtin_schema>> \o extra_schema)
  /\ UNCHANGED <<envvars, pc, fd, call>>

(***************************************************************************)
(* _resolve_config_dir on its own.  A path is the sequence of its parts,   *)
(* "/" first when it is absolute; Path("") has no part.                    *)
(***************************************************************************)
Home == <<"/", "home">>
Cwd == <<"/", "work">>
CONFIG_DIR_DEFAULT == <<"~", ".hpcflow">>

\* Path.expanduser
ExpandUser(path) ==
  IF path # <<>> /\ Head(path) = "~" THEN Home \o Tail(path) ELSE path

\* Path.absolute
Absolute(path) ==
  IF path # <<>> /\ Head(path) = "/" THEN path ELSE Cwd \o path

Parent(path) == SubSeq(path, 1, Len(path) - 1)

\* os.getenv(name, default) on an environment [set, value]
GetEnv(env, default) == IF env.set THEN env.value ELSE default

\* Path.mkdir(): the directory itself and nothing above it
Mkdir(dirs, files, path) ==
  LET a == Absolute(path) IN
  IF a \in dirs \cup files THEN [err |-> "FileExistsError", dirs |-> dirs]
  ELSE IF Parent(a) \in files THEN [err |-> "NotADirectoryError", dirs |-> dirs]
  ELSE IF Parent(a) \notin dirs THEN [err |-> "FileNotFoundError", dirs |-> dirs]
  ELSE [err |-> "", dirs |-> dirs \cup {a}]

\* the config_dir argument: None, or a string with the path it spells
NoDir == [kind |-> "None", path |-> <<>>]
StrDir(path) == [kind |-> "str", path |-> path]

NoResolve ==
  [config_dir |-> NoDir, env |-> [set |-> FALSE, value |-> <<>>],
   dirs |-> {}, files |-> {}, pre_dirs |-> {},
   done |-> FALSE, error |-> "", ret |-> <<>>]

\* the directory _resolve_config_dir looks at: "not config_dir" holds for
\* None and for the empty string
ChosenDir(config_dir, env) ==
  IF config_dir.kind = "None" \/ config_dir.path = <<>>
    THEN ExpandUser(GetEnv(env, CONFIG_DIR_DEFAULT))
    ELSE config_dir.path

\* _resolve_config_dir(config_dir)
ResolveConfigDirCall ==
  /\ ~resolve.done
  /\ LET config_dir == ChosenDir(resolve.config_dir, resolve.env)
         made == IF Absolute(config_dir) \in resolve.dirs
                   THEN [err |-> "", dirs |-> resolve.dirs]
                   ELSE Mkdir(resolve.dirs, resolve.files, config_dir)
     IN resolve' = [resolve EXCEPT
          !.done = TRUE,
          !.pre_dirs = resolve.dirs,
          !.dirs = made.dirs,
          !.error = made.err,
          !.ret = IF made.err = "" THEN Absolute(config_dir) ELSE <<>>]
  /\ UNCHANGED <<fsvars, run_time_info, builtin_schema, extra_schema, faults,
                 st, load_error, pc, objvars, fd, call, workflow>>

(***************************************************************************)
(* Reading and the checks that come before a modification.                 *)
(***************************************************************************)
MetaKeys ==
  {"config_dir", "config_file_path", "config_file_contents",
   "config_invocation_key", "config_schemas"}

\* a meta-data item as a returned value
MetaVal(name) == Val("meta", name, <<>>)

\* __getattr__
GetAttr(p, name) ==
  IF name \in MetaKeys THEN [err |-> "", v |-> MetaVal(name)]
  ELSE IF name \in Range(configurable_keys[p])
    THEN [err |-> "", v |-> DictGet(configured_data[p], name)]
  ELSE [err |-> "ConfigUnknownItemError", v |-> PyNone]

\* json.loads on the strings the model passes
JsonLoads(str) ==
  CASE str = "\"out\"" -> [ok |-> TRUE, v |-> PyStr("out")]
    [] str = "\"b\"" -> [ok |-> TRUE, v |-> PyStr("b")]
    [] str = "[\"a\"]" -> [ok |-> TRUE, v |-> PyList(<<PyStr("a")>>)]
    [] str = "[]" -> [ok |-> TRUE, v |-> PyList(<<>>)]
    [] str = "null" -> [ok |-> TRUE, v |-> PyNone]
    [] str = "1" -> [ok |-> TRUE, v |-> PyInt("1")]
    [] str = "true" -> [ok |-> TRUE, v |-> PyBool("True")]
    [] str = "{\"a\": 1}" ->
         [ok |-> TRUE, v |-> PyMap(<<PyPair("a", PyInt("1"))>>)]
    [] OTHER -> [ok |-> FALSE, v |-> PyNone]

\* _prepare_modify without the test of the name against the configurable keys
PrepareModifyAnyName(p, name, new_value, is_json) ==
  IF is_json /\ ~JsonLoads(new_value.s).ok
    THEN [err |-> "ConfigChangeInvalidJSONError", old_value |-> PyNone,
          new_value |-> new_value, info |-> ErrInfo(0, 0, new_value.s)]
  ELSE [err |-> GetAttr(p, name).err,
        old_value |-> GetAttr(p, name).v,
        new_value |-> IF is_json THEN JsonLoads(new_value.s).v ELSE new_value,
        info |-> NoInfo]

\* _prepare_modify that decodes the value before it tests the name
PrepareModifyJsonFirst(p, name, new_value, is_json) ==
  LET none == [err |-> "", old_value |-> PyNone, new_value |-> new_value,
               info |-> NoInfo] IN
  IF is_json /\ ~JsonLoads(new_value.s).ok
    THEN [none EXCEPT !.err = "ConfigChangeInvalidJSONError",
                      !.info = ErrInfo(0, 0, new_value.s)]
  ELSE IF name \notin Range(configurable_keys[p])
    THEN [none EXCEPT !.err = "ConfigChangeInvalidError"]
  ELSE [err |-> GetAttr(p, name).err,
        old_value |-> GetAttr(p, name).v,
        new_value |-> IF is_json THEN JsonLoads(new_value.s).v ELSE new_value,
        info |-> NoInfo]

\* _prepare_modify
PrepareModify(p, name, new_value, is_json) ==
  LET none == [err |-> "", old_value |-> PyNone, new_value |-> new_value,
               info |-> NoInfo] IN
  IF name \notin Range(configurable_keys[p])
    THEN [none EXCEPT !.err = "ConfigChangeInvalidError"]
  ELSE IF is_json /\ ~JsonLoads(new_value.s).ok
    THEN [none EXCEPT !.err = "ConfigChangeInvalidJSONError",
                      !.info = ErrInfo(0, 0, new_value.s)]
  ELSE [err |-> GetAttr(p, name).err,
        old_value |-> GetAttr(p, name).v,
        new_value |-> IF is_json THEN JsonLoads(new_value.s).v ELSE new_value,
        info |-> NoInfo]

\* the active profile's config of a round-trip document
RtConfig(rt, key) == GetItem(rt.configs, key).config
\* the config of the first profile replaced, whichever profile is active
RtWithConfigFirst(rt, key, c) == [rt EXCEPT !.configs[1].v.config = c]
\* the config of every profile replaced
RtWithConfigAll(rt, key, c) ==
  [rt EXCEPT !.configs = [i \in DOMAIN @ |-> [@[i] EXCEPT !.v.config = c]]]
\* rt["configs"][key]["config"] replaced
RtWithConfig(rt, key, c) ==
  [rt EXCEPT !.configs[Idx(rt.configs, key)].v.config = c]

\* the record of a call as it starts
NewCall(p, op, name) ==
  [NoCall EXCEPT !.op = op, !.name = name,
                 !.pre_data = configured_data[p],
                 !.pre_rt = cfg_file_dat_rt[p],
                 !.pre_file = FileText(meta_data[p].config_file_path)]

\* a call that ends without touching the loader or the files
Ends(p, c) ==
  /\ call' = [call EXCEPT ![p] = c]
  /\ UNCHANGED <<fsvars, envvars, st, load_error, pc, objvars, fd>>
Raises(p, c, e) == Ends(p, [c EXCEPT !.outcome = "raised", !.error = e])
\* a call stopped by the error of _prepare_modify
RaisesFrom(p, c, r) == Raises(p, [c EXCEPT !.info = r.info], r.err)
Returns(p, c, v) == Ends(p, [c EXCEPT !.outcome = "returned", !.ret = v])

\* _modify_if_valid up to the call of _update_config_file
ModifyIfValid(p, c0, new_value, is_unset) ==
  LET c == [c0 EXCEPT !.stage = "modify", !.new_value = new_value,
                      !.is_unset = is_unset]
      data == configured_data[p]
      key == meta_data[p].config_invocation_key
      rt == cfg_file_dat_rt[p]
      dat_copy == IF is_unset THEN DelItem(data, c.name)
                  ELSE SetItem(data, c.name, new_value)
  IN IF ~Has(data, c.name) THEN Raises(p, c, "KeyError")
     ELSE IF ~ValidateConfiguredData(meta_data[p].config_schemas, dat_copy)
       THEN Raises(p, c, "ConfigChangeValidationError")
     ELSE /\ cfg_file_dat_rt' = [cfg_file_dat_rt EXCEPT ![p] =
               RtWithConfig(rt, key,
                 IF is_unset THEN DelItem(RtConfig(rt, key), c.name)
                 ELSE SetItem(RtConfig(rt, key), c.name, new_value))]
          /\ configured_data' = [configured_data EXCEPT ![p] =
               IF is_unset THEN DelItem(data, c.name)
               ELSE SetItem(data, c.name, new_value)]
          /\ pc' = [pc EXCEPT ![p] = "open"]
          /\ call' = [call EXCEPT ![p] =
               [c EXCEPT !.outcome = "running",
                         !.old_value = GetItem(data, c.name)]]
          /\ UNCHANGED <<fsvars, envvars, st, load_error, configurable_keys,
                         meta_data, fd>>

\* _set_value without the comparison of the new value with the old one
SetValueInnerAlways(p, c0, old_value, new_value) ==
  ModifyIfValid(p, [c0 EXCEPT !.stage = "set", !.old_value = old_value,
                              !.new_value = new_value], new_value, FALSE)

\* _set_value
SetValueInner(p, c0, old_value, new_value) ==
  LET c == [c0 EXCEPT !.stage = "set", !.old_value = old_value,
                      !.new_value = new_value]
  IN IF PyEq(old_value, new_value)
       THEN Ends(p, [c EXCEPT !.outcome = "returned", !.warned = TRUE])
       ELSE ModifyIfValid(p, c, new_value, FALSE)

\* _unset_value without the test for a key that is not set
UnsetValueInnerNoTest(p, c0) ==
  ModifyIfValid(p, [c0 EXCEPT !.stage = "set", !.is_unset = TRUE], PyNone, TRUE)

\* _unset_value
UnsetValueInner(p, c0) ==
  LET c == [c0 EXCEPT !.stage = "set", !.is_unset = TRUE] IN
  IF ~Has(configured_data[p], c.name)
    THEN Ends(p, [c EXCEPT !.outcome = "returned", !.warned = TRUE])
    ELSE ModifyIfValid(p, c, PyNone, TRUE)

Idle(p) == st[p] = "ready" /\ pc[p] = "idle"

(***************************************************************************)
(* The public calls.                                                       *)
(***************************************************************************)
Get(p, name) ==
  /\ Idle(p)
  /\ LET c == NewCall(p, "get", name)
         r == GetAttr(p, name)
     IN IF r.err # "" THEN Raises(p, c, r.err) ELSE Returns(p, c, r.v)

SetValue(p, name, value, is_json) ==
  /\ Idle(p)
  /\ LET c == [NewCall(p, "set_value", name) EXCEPT
                 !.value = value, !.is_json = is_json]
         r == PrepareModify(p, name, value, is_json)
     IN IF r.err # "" THEN RaisesFrom(p, c, r)
        ELSE SetValueInner(p, c, r.old_value, r.new_value)

UnsetValue(p, name) ==
  /\ Idle(p)
  /\ LET c == NewCall(p, "unset_value", name)
         r == PrepareModify(p, name, PyNone, FALSE)
     IN IF r.err # "" THEN RaisesFrom(p, c, r) ELSE UnsetValueInner(p, c)

AppendValue(p, name, value, is_json) ==
  /\ Idle(p)
  /\ LET c == [NewCall(p, "append_value", name) EXCEPT
                 !.value = value, !.is_json = is_json]
         r == PrepareModify(p, name, value, is_json)
     IN IF r.err # "" THEN RaisesFrom(p, c, r)
        ELSE IF r.old_value.kind # "list"
          THEN Raises(p, c, "ConfigChangeTypeInvalidError")
        ELSE /\ Len(r.old_value.items) < MaxLen
             /\ SetValueInner(p, c, r.old_value,
                   PyList(Append(r.old_value.items, r.new_value)))

PrependValue(p, name, value, is_json) ==
  /\ Idle(p)
  /\ LET c == [NewCall(p, "prepend_value", name) EXCEPT
                 !.value = value, !.is_json = is_json]
         r == PrepareModify(p, name, value, is_json)
     IN IF r.err # "" THEN RaisesFrom(p, c, r)
        ELSE IF r.old_value.kind # "list"
          THEN Raises(p, c, "ConfigChangeTypeInvalidError")
        ELSE /\ Len(r.old_value.items) < MaxLen
             /\ SetValueInner(p, c, r.old_value,
                   PyList(<<r.new_value>> \o r.old_value.items))

\* a pop that always takes the element at the front
PopAtFront(items, index) == Tail(items)
\* a range test that forgets the lower end
PopInRangeNoLower(items, index) == index < Len(items)

\* list.pop(index) on a copy: the list without the element, or no list
\* (an IndexError) when the index is out of range
PopAt(items, index) ==
  LET n == Len(items)
      i == IF index < 0 THEN index + n + 1 ELSE index + 1
  IN [j \in 1..(n - 1) |-> IF j < i THEN items[j] ELSE items[j + 1]]
PopInRange(items, index) == -Len(items) <= index /\ index < Len(items)

\* a mapping has a pop of its own, which raises KeyError for a key it has
\* not: the keys of the model's mappings are strings, the index is an integer
PopValue(p, name, index) ==
  /\ Idle(p)
  /\ LET c == [NewCall(p, "pop_value", name) EXCEPT !.index = index]
         r == PrepareModify(p, name, PyNone, FALSE)
     IN IF r.err # "" THEN RaisesFrom(p, c, r)
        ELSE IF r.old_value.kind = "map"
          THEN Raises(p, c, "KeyError")
        ELSE IF r.old_value.kind # "list"
          THEN Raises(p, c, "ConfigChangeTypeInvalidError")
        ELSE IF ~PopInRange(r.old_value.items, index)
          THEN Raises(p, [c EXCEPT !.info =
                            ErrInfo(Len(r.old_value.items), index, "")],
                      "ConfigChangePopIndexError")
        ELSE SetValueInner(p, c, r.old_value,
               PyList(PopAt(r.old_value.items, index)))

(***************************************************************************)
(* _update_config_file, one file-system operation at a time, and the       *)
(* handler of _modify_if_valid around it.                                  *)
(***************************************************************************)
Hole == <<"hole">>

\* a write that forgets the offset of the handle
WriteAtStart(text, off, toks) == toks

\* the text of a file after toks were written at offset off
WriteAt(text, off, toks) ==
  LET n == IF Len(text) > off + Len(toks) THEN Len(text) ELSE off + Len(toks) IN
  [i \in 1..n |->
     IF i > off /\ i <= off + Len(toks) THEN toks[i - off]
     ELSE IF i <= Len(text) THEN text[i]
     ELSE Hole]

\* an except branch that puts the old value back in the config mapping only
ReinstateMemoryOnly(p) ==
  LET c == call[p] IN
  /\ UNCHANGED cfg_file_dat_rt
  /\ configured_data' = [configured_data EXCEPT ![p] =
       SetItem(configured_data[p], c.name, c.old_value)]
  /\ call' = [call EXCEPT ![p] =
       [c EXCEPT !.outcome = "raised", !.error = "ConfigChangeFileUpdateError",
                 !.io = c.io + 1]]
  /\ pc' = [pc EXCEPT ![p] = "idle"]

\* the except branch: the old value is put back and the error raised
Reinstate(p) ==
  LET c == call[p]
      key == meta_data[p].config_invocation_key
      rt == cfg_file_dat_rt[p]
  IN /\ cfg_file_dat_rt' = [cfg_file_dat_rt EXCEPT ![p] =
          RtWithConfig(rt, key, SetItem(RtConfig(rt, key), c.name, c.old_value))]
     /\ configured_data' = [configured_data EXCEPT ![p] =
          SetItem(configured_data[p], c.name, c.old_value)]
     /\ call' = [call EXCEPT ![p] =
          [c EXCEPT !.outcome = "raised", !.error = "ConfigChangeFileUpdateError",
                    !.io = c.io + 1]]
     /\ pc' = [pc EXCEPT ![p] = "idle"]

\* cfg_tmp_file.open("w"): the temporary file is created, or emptied when
\* a file of that name is there
OpenTmp(p) ==
  /\ st[p] = "ready" /\ pc[p] = "open"
  /\ LET tmp == TmpPath(meta_data[p].config_file_path)
         i == IF IsFile(tmp) THEN dir[tmp] ELSE FreshIno(dir, fd)
     IN /\ dir' = [dir EXCEPT ![tmp] = i]
        /\ ino' = [ino EXCEPT ![i] = <<>>]
        /\ fd' = [fd EXCEPT ![p] = [ino |-> i, off |-> 0]]
  /\ pc' = [pc EXCEPT ![p] = "write"]
  /\ call' = [call EXCEPT ![p].io = @ + 1]
  /\ UNCHANGED <<renamed, envvars, st, load_error, objvars>>

\* yaml.dump: a full buffer goes to the file
WriteChunk(p) ==
  /\ st[p] = "ready" /\ pc[p] = "write"
  /\ LET text == Dump(cfg_file_dat_rt[p])
         off == fd[p].off
     IN /\ Len(text) - off > BufSize
        /\ ino' = [ino EXCEPT ![fd[p].ino] =
                    WriteAt(@, off, SubSeq(text, off + 1, off + BufSize))]
        /\ fd' = [fd EXCEPT ![p].off = off + BufSize]
  /\ UNCHANGED <<dir, renamed, envvars, st, load_error, pc, objvars, call>>

\* the end of the with block: the rest of the buffer goes to the file and
\* the handle is closed
CloseTmp(p) ==
  /\ st[p] = "ready" /\ pc[p] = "write"
  /\ LET text == Dump(cfg_file_dat_rt[p])
         off == fd[p].off
         f == [fd EXCEPT ![p] = NoFd]
     IN /\ Len(text) - off <= BufSize
        /\ ino' = Collect(dir, f,
                    [ino EXCEPT ![fd[p].ino] =
                       WriteAt(@, off, SubSeq(text, off + 1, Len(text)))])
        /\ fd' = f
  /\ pc' = [pc EXCEPT ![p] = "replace"]
  /\ UNCHANGED <<dir, renamed, envvars, st, load_error, objvars, call>>

\* os.replace(src=cfg_tmp_file, dst=cfg_file_path); it raises when no
\* file has the temporary name any more
\* an os.replace after which the loader takes the new text of the file as
\* its config_file_contents
ReplaceAndReread(p) ==
  /\ st[p] = "ready" /\ pc[p] = "replace"
  /\ LET path == meta_data[p].config_file_path
         tmp == TmpPath(path)
         d == [dir EXCEPT ![path] = dir[tmp], ![tmp] = 0]
         c == call[p]
     IN /\ IsFile(tmp)
        /\ dir' = d
        /\ ino' = Collect(d, fd, ino)
        /\ renamed' = p
        /\ pc' = [pc EXCEPT ![p] = "idle"]
        /\ call' = [call EXCEPT ![p] =
             [c EXCEPT !.outcome = "returned",
                       !.ret = IF c.is_unset THEN PyBool("True") ELSE c.new_value,
                       !.io = c.io + 1, !.replaced = c.replaced + 1]]
        /\ meta_data' = [meta_data EXCEPT ![p].config_file_contents = ino[dir[tmp]]]
        /\ UNCHANGED <<configured_data, cfg_file_dat_rt>>
  /\ UNCHANGED <<envvars, st, load_error, configurable_keys, fd>>

Replace(p) ==
  /\ st[p] = "ready" /\ pc[p] = "replace"
  /\ LET path == meta_data[p].config_file_path
         tmp == TmpPath(path)
         d == [dir EXCEPT ![path] = dir[tmp], ![tmp] = 0]
         c == call[p]
     IN IF IsFile(tmp)
          THEN /\ dir' = d
               /\ ino' = Collect(d, fd, ino)
               /\ renamed' = p
               /\ pc' = [pc EXCEPT ![p] = "idle"]
               /\ call' = [call EXCEPT ![p] =
                    [c EXCEPT !.outcome = "returned",
                              !.ret = IF c.is_unset THEN PyBool("True")
                                      ELSE c.new_value,
                              !.io = c.io + 1, !.replaced = c.replaced + 1]]
               /\ UNCHANGED <<configured_data, cfg_file_dat_rt>>
          ELSE Reinstate(p) /\ UNCHANGED fsvars
  /\ UNCHANGED <<envvars, st, load_error, configurable_keys, meta_data, fd>>

\* a file-system operation of _update_config_file fails (no permission,
\* no space): an open handle is closed, nothing more is written
IOFails(p) ==
  /\ st[p] = "ready" /\ pc[p] \in {"open", "write", "replace"}
  /\ faults < MaxFaults
  /\ faults' = faults + 1
  /\ Reinstate(p)
  /\ LET f == [fd EXCEPT ![p] = NoFd] IN
       /\ fd' = f
       /\ ino' = Collect(dir, f, ino)
  /\ UNCHANGED <<dir, renamed, run_time_info, builtin_schema, extra_schema, st,
                 load_error,
                 configurable_keys, meta_data, sidevars>>

\* the process dies inside _update_config_file
Crash(p) ==
  /\ st[p] = "ready" /\ pc[p] \in {"open", "write", "replace"}
  /\ st' = [st EXCEPT ![p] = "crashed"]
  /\ call' = [call EXCEPT ![p].outcome = "crashed"]
  /\ LET f == [fd EXCEPT ![p] = NoFd] IN
       /\ fd' = f
       /\ ino' = Collect(dir, f, ino)
  /\ UNCHANGED <<dir, renamed, envvars, load_error, pc, objvars>>

(***************************************************************************)
(* api.make_workflow, one action per statement that can end the call.      *)
(***************************************************************************)
\* bool(v) of an argument: None, "" and [] are false
Truthy(v) ==
  /\ v.kind # "null"
  /\ ~(v.kind = "str" /\ v.s = "")
  /\ ~(v.kind = "list" /\ v.items = <<>>)

NoWorkflow ==
  [profile_list |-> PyNone, json_file |-> PyNone, json_str |-> PyNone,
   json_files |-> {}, pc |-> "start", error |-> "", project |-> FALSE,
   source |-> "", workflow_dict |-> PyNone, sessions |-> 0, added |-> 0,
   committed |-> FALSE, ret |-> 0]

\* lines 58-62: the count of the arguments that are not None
MakeWorkflowCheck ==
  /\ workflow.pc = "start"
  /\ LET not_nones ==
           (IF workflow.profile_list.kind # "null" THEN 1 ELSE 0)
         + (IF workflow.json_file.kind # "null" THEN 1 ELSE 0)
         + (IF workflow.json_str.kind # "null" THEN 1 ELSE 0)
     IN workflow' =
          IF not_nones > 1
            THEN [workflow EXCEPT !.pc = "raised", !.error = "ValueError"]
            ELSE [workflow EXCEPT !.pc = "project"]
  /\ UNCHANGED <<fsvars, run_time_info, builtin_schema, extra_schema, faults,
                 st, load_error, pc, objvars, fd, call, resolve>>

\* line 64: project = Project(dir_path, clean=clean)
MakeProject ==
  /\ workflow.pc = "project"
  /\ workflow' = [workflow EXCEPT !.pc = "source", !.project = TRUE]
  /\ UNCHANGED <<fsvars, run_time_info, builtin_schema, extra_schema, faults,
                 st, load_error, pc, objvars, fd, call, resolve>>

\* lines 66-75: the workflow dict from the JSON string, from the JSON file
\* or from the YAML profiles
LoadWorkflowDict ==
  /\ workflow.pc = "source"
  /\ workflow' =
       IF Truthy(workflow.json_str)
         THEN LET r == JsonLoads(workflow.json_str.s) IN
              IF r.ok
                THEN [workflow EXCEPT !.pc = "session", !.source = "json_str",
                                      !.workflow_dict = r.v]
                ELSE [workflow EXCEPT !.pc = "raised", !.source = "json_str",
                                      !.error = "JSONDecodeError"]
       ELSE IF Truthy(workflow.json_file)
         THEN IF workflow.json_file.s \in workflow.json_files
                THEN [workflow EXCEPT !.pc = "session", !.source = "json_file",
                        !.workflow_dict = PyMap(<<PyPair("file", workflow.json_file)>>)]
                ELSE [workflow EXCEPT !.pc = "raised", !.source = "json_file",
                                      !.error = "FileNotFoundError"]
       ELSE [workflow EXCEPT !.pc = "session", !.source = "profiles",
               !.workflow_dict = PyMap(<<PyPair("profiles", workflow.profile_list)>>)]
  /\ UNCHANGED <<fsvars, run_time_info, builtin_schema, extra_schema, faults,
                 st, load_error, pc, objvars, fd, call, resolve>>

\* lines 77-78: Session = init_db(project, check_exists=False); Session()
OpenSession ==
  /\ workflow.pc = "session"
  /\ workflow' = [workflow EXCEPT !.pc = "add", !.sessions = workflow.sessions + 1]
  /\ UNCHANGED <<fsvars, run_time_info, builtin_schema, extra_schema, faults,
                 st, load_error, pc, objvars, fd, call, resolve>>

\* lines 80-88: the Workflow is added and committed, its id returned
AddWorkflow ==
  /\ workflow.pc = "add"
  /\ workflow' = [workflow EXCEPT !.pc = "done", !.added = workflow.added + 1,
                                  !.committed = TRUE, !.ret = 1]
  /\ UNCHANGED <<fsvars, run_time_info, builtin_schema, extra_schema, faults,
                 st, load_error, pc, objvars, fd, call, resolve>>

(***************************************************************************)
(* Inputs, initial states and specifications.                              *)
(***************************************************************************)
Names == {"log_directory", "environment_sources", "bogus"}
\* set_value and unset_value are also called with a meta-data name
SetNames == Names \cup {"config_dir"}
GetNames == {"log_directory", "bogus", "config_dir"}
\* <<value, is_json>> arguments of set_value
SetInputs ==
  {<<PyStr("out"), FALSE>>, <<PyList(<<>>), FALSE>>, <<PyNone, FALSE>>,
   <<PyStr("\"out\""), TRUE>>, <<PyStr("["), TRUE>>}
\* <<value, is_json>> arguments of append_value and prepend_value
AddInputs ==
  {<<PyStr("a"), FALSE>>, <<PyStr("[\"a\"]"), TRUE>>, <<PyStr("["), TRUE>>}
Indexes == {-3, -1, 0, 2}

\* RUN_TIME_INFO of a process that is not frozen, run in directory wd
RunTimeInfo(wd) ==
  << [k |-> "is_frozen", v |-> PyBool("False")],
     [k |-> "working_dir", v |-> PyStr(wd)],
     [k |-> "is_venv", v |-> PyBool("True")] >>

ProfileA ==
  [k |-> "A",
   v |-> Profile("ok", PyNone, <<>>,
           << [k |-> "log_directory", v |-> PyStr("logs")],
              [k |-> "environment_sources", v |-> PyList(<<>>)] >>)]
ProfileB ==
  [k |-> "B",
   v |-> Profile("ok", PyNone, << [k |-> "working_dir", v |-> PyStr("x")] >>,
           << [k |-> "log_directory", v |-> PyStr("out")],
              [k |-> "environment_sources", v |-> PyList(<<PyStr("a")>>)] >>)]

\* the documents a configuration directory may hold before the first load
\* and the run-time info of the processes that load them
InitDocs ==
  {[doc |-> Doc("host", <<ProfileB, ProfileA>>), rti |-> RunTimeInfo("y")]}

\* no loader is constructed, no file is open
InitLoader ==
  /\ renamed = 0
  /\ st = [p \in Procs |-> "init"]
  /\ load_error = [p \in Procs |-> ""]
  /\ pc = [p \in Procs |-> "idle"]
  /\ configurable_keys = [p \in Procs |-> <<>>]
  /\ configured_data = [p \in Procs |-> <<>>]
  /\ cfg_file_dat_rt = [p \in Procs |-> EmptyDoc]
  /\ meta_data = [p \in Procs |-> NoMeta]
  /\ fd = [p \in Procs |-> NoFd]
  /\ call = [p \in Procs |-> NoCall]

\* no loader is constructed, no file is open, no call was made
InitObj ==
  /\ InitLoader
  /\ resolve = NoResolve
  /\ workflow = NoWorkflow

\* the built-in schema alone, and no file-system operation has failed
InitCommon ==
  /\ builtin_schema = BuiltinSchema
  /\ extra_schema = <<>>
  /\ faults = 0
  /\ InitObj

NoFiles == [n \in Files |-> 0]
NoText == [i \in Inodes |-> <<>>]

Init ==
  /\ \/ /\ dir = NoFiles /\ ino = NoText
        /\ run_time_info = RunTimeInfo("x")
     \/ \E i \in InitDocs :
          /\ dir = [NoFiles EXCEPT !["config.yaml"] = 1]
          /\ ino = [NoText EXCEPT ![1] = Dump(i.doc)]
          /\ run_time_info = i.rti
  /\ InitCommon

Step(p) ==
  \/ LoadConfig(p)
  \/ \E name \in GetNames : Get(p, name)
  \/ \E name \in SetNames, in \in SetInputs : SetValue(p, name, in[1], in[2])
  \/ \E name \in SetNames : UnsetValue(p, name)
  \/ \E name \in Names, in \in AddInputs : AppendValue(p, name, in[1], in[2])
  \/ \E name \in Names, in \in AddInputs : PrependValue(p, name, in[1], in[2])
  \/ \E name \in Names, index \in Indexes : PopValue(p, name, index)
  \/ OpenTmp(p)
  \/ WriteChunk(p)
  \/ CloseTmp(p)
  \/ Replace(p)
  \/ IOFails(p)
  \/ Crash(p)

\* one process uses the configuration directory
Next == Step(1)

Spec == Init /\ [][Next]_vars

(***************************************************************************)
(* What the claims below speak about.                                      *)
(***************************************************************************)
Mutators ==
  {"set_value", "unset_value", "append_value", "prepend_value", "pop_value"}
\* the call has ended by returning or raising
Finished(c) == c.outcome \in {"returned", "raised"}
\* the text at the configuration file path of process p
CfgText(p) == FileText(meta_data[p].config_file_path)
\* the call changed nothing: not the loader, not the file, and it made no
\* file-system operation
Untouched(p, c) ==
  /\ configured_data[p] = c.pre_data
  /\ cfg_file_dat_rt[p] = c.pre_rt
  /\ CfgText(p) = c.pre_file
  /\ c.io = 0
\* the mapping the call asked for: the config mapping before the call with
\* the requested change applied
Candidate(c) ==
  IF c.is_unset THEN DelItem(c.pre_data, c.name)
  ELSE SetItem(c.pre_data, c.name, c.new_value)

\* C1: a mutator whose file update fails raises ConfigChangeFileUpdateError,
\* and afterwards get(name) returns the pre-call value, the config mapping
\* and the round-trip config of the active profile equal (as mappings) the
\* snapshot taken before the change, and the file has its pre-call text.
C1_FailedUpdateReverts ==
  \A p \in Procs :
    LET c == call[p]
        key == meta_data[p].config_invocation_key
    IN (st[p] = "ready" /\ c.op \in Mutators /\ Finished(c)
        /\ c.io > 0 /\ c.replaced = 0) =>
         /\ c.outcome = "raised"
         /\ c.error = "ConfigChangeFileUpdateError"
         /\ GetAttr(p, c.name).v = DictGet(c.pre_data, c.name)
         /\ DictEq(configured_data[p], c.pre_data)
         /\ DictEq(RtConfig(cfg_file_dat_rt[p], key), RtConfig(c.pre_rt, key))
         /\ CfgText(p) = c.pre_file

\* a failed unset_value: the key is back, at the end of the mapping
C1_Witness ==
  /\ call[1].op = "unset_value"
  /\ call[1].error = "ConfigChangeFileUpdateError"
  /\ configured_data[1] # call[1].pre_data

\* C2: between calls the config mapping, the round-trip config of the
\* active profile and the active profile's config in the file agree as
\* mappings.
C2_MemoryRtFileAgree ==
  \A p \in Procs :
    (st[p] = "ready" /\ pc[p] = "idle") =>
      LET key == meta_data[p].config_invocation_key
          loaded == Load(CfgText(p))
      IN /\ DictEq(configured_data[p], RtConfig(cfg_file_dat_rt[p], key))
         /\ loaded.status = "ok"
         /\ Has(loaded.doc.configs, key)
         /\ DictEq(configured_data[p], RtConfig(loaded.doc, key))

\* a successful mutation after a failed one
C2_Witness ==
  /\ faults = 1 /\ pc[1] = "idle"
  /\ call[1].outcome = "returned" /\ call[1].replaced = 1
  /\ call[1].op = "append_value"

\* C3: a mutator whose candidate mapping a schema rejects raises
\* ConfigChangeValidationError and touches nothing.
C3_RejectedCandidateRaises ==
  \A p \in Procs :
    LET c == call[p] IN
    (c.op \in Mutators /\ Finished(c) /\ c.stage = "modify"
     /\ ~ValidateConfiguredData(meta_data[p].config_schemas, Candidate(c))) =>
       /\ c.outcome = "raised"
       /\ c.error = "ConfigChangeValidationError"
       /\ Untouched(p, c)

\* C4 as claimed: get, set_value and unset_value of a name that is not
\* configurable raise ConfigUnknownItemError and touch nothing.
C4_UnknownNameRaisesUnknownItem ==
  \A p \in Procs :
    LET c == call[p] IN
    (Finished(c) /\ c.op \in {"get", "set_value", "unset_value"}
     /\ c.name \notin Range(configurable_keys[p])) =>
       /\ c.outcome = "raised"
       /\ c.error = "ConfigUnknownItemError"
       /\ Untouched(p, c)

\* C4 as amended: of a name that is not configurable, get raises
\* ConfigUnknownItemError unless the name is a meta-data key, whose value it
\* returns; set_value and unset_value raise ConfigChangeInvalidError, for
\* meta-data names too; none of them touches anything.
C4_UnknownNameRejected ==
  \A p \in Procs :
    LET c == call[p] IN
    (Finished(c) /\ c.op \in {"get", "set_value", "unset_value"}
     /\ c.name \notin Range(configurable_keys[p])) =>
       /\ Untouched(p, c)
       /\ c.op = "get" /\ c.name \in MetaKeys =>
            c.outcome = "returned" /\ c.ret = MetaVal(c.name)
       /\ c.op = "get" /\ c.name \notin MetaKeys =>
            c.outcome = "raised" /\ c.error = "ConfigUnknownItemError"
       /\ c.op # "get" =>
            c.outcome = "raised" /\ c.error = "ConfigChangeInvalidError"

C4_Witness ==
  /\ call[1].op = "set_value" /\ call[1].name = "config_dir"
  /\ call[1].error = "ConfigChangeInvalidError"

\* C5: while one process persists a change, and after it crashed or failed
\* at any step, the configuration file holds the whole document of before
\* the call until os.replace succeeds, and the whole new document after.
C5_ConfigFileNeverPartial ==
  \A p \in Procs :
    LET c == call[p] IN
    (st[p] \in {"ready", "crashed"} /\ c.op \in Mutators) =>
      /\ Load(CfgText(p)).status = "ok"
      /\ c.replaced = 0 => CfgText(p) = c.pre_file
      /\ c.replaced > 0 => CfgText(p) = Dump(cfg_file_dat_rt[p])

\* a crash with the temporary file half written
C5_Witness ==
  /\ st[1] = "crashed" /\ pc[1] = "write"
  /\ FileText("config.tmp") # <<>>
  /\ Len(FileText("config.tmp")) < Len(Dump(cfg_file_dat_rt[1]))

\* C7: set_value of the value a configurable name has already warns,
\* returns, makes no file-system operation and changes nothing, and get
\* returns the same value; append, prepend and pop never end as a no-op.
C7_SetSameValueIsNoOp ==
  \A p \in Procs :
    LET c == call[p] IN
    Finished(c) =>
      /\ (c.op = "set_value" /\ c.stage # "prepare"
          /\ c.new_value = DictGet(c.pre_data, c.name)) =>
            /\ c.outcome = "returned" /\ c.warned
            /\ Untouched(p, c)
            /\ GetAttr(p, c.name).v = DictGet(c.pre_data, c.name)
      /\ c.op \in {"append_value", "prepend_value", "pop_value"} => ~c.warned

C7_Witness ==
  /\ call[1].op = "set_value" /\ call[1].warned
  /\ call[1].name = "log_directory" /\ call[1].new_value = PyStr("out")

\* C8: after a mutator returned without the no-op warning, the file was
\* replaced exactly once, holds the dump of the changed document, and a
\* fresh load of the directory under the same run-time info selects the
\* same profile and finds the returned value (no value after unset_value).
C8_SuccessPersistsOnce ==
  \A p \in Procs :
    LET c == call[p]
        r == LoadResult(FileText(MainConfigPath), run_time_info,
                        meta_data[p].config_schemas)
    IN (st[p] = "ready" /\ c.op \in Mutators /\ c.outcome = "returned"
        /\ ~c.warned) =>
         /\ c.replaced = 1
         /\ CfgText(p) = Dump(cfg_file_dat_rt[p])
         /\ r.err = ""
         /\ r.key = meta_data[p].config_invocation_key
         /\ IF c.op = "unset_value" THEN ~Has(r.data, c.name)
            ELSE Has(r.data, c.name) /\ GetItem(r.data, c.name) = c.ret

C8_Witness ==
  /\ call[1].op = "prepend_value" /\ call[1].outcome = "returned"
  /\ Len(call[1].ret.items) = 2
  /\ meta_data[1].config_invocation_key = "A"

\* C9: set_value of a non-null value on a configurable name that the
\* config mapping does not hold, with a schema-valid candidate, adds the
\* key in memory and in the round-trip document, persists it and returns it.
C9_SetAbsentKeyAddsIt ==
  \A p \in Procs :
    LET c == call[p]
        key == meta_data[p].config_invocation_key
    IN (Finished(c) /\ c.op = "set_value" /\ c.stage # "prepare"
        /\ ~Has(c.pre_data, c.name) /\ c.new_value # PyNone
        /\ ValidateConfiguredData(meta_data[p].config_schemas, Candidate(c))) =>
         /\ c.outcome = "returned" /\ c.ret = c.new_value
         /\ GetAttr(p, c.name).v = c.new_value
         /\ Has(RtConfig(cfg_file_dat_rt[p], key), c.name)
         /\ c.replaced = 1

\* the value a call passes on: the argument, JSON-decoded when is_json
Passed(c) == IF c.is_json THEN JsonLoads(c.value.s).v ELSE c.value
\* a list without its element at the zero-based place j
Without(items, j) == SubSeq(items, 1, j) \o SubSeq(items, j + 2, Len(items))
\* the list a list mutator is to produce from the list old
ListResult(c, old) ==
  CASE c.op = "append_value" -> PyList(old.items \o <<Passed(c)>>)
    [] c.op = "prepend_value" -> PyList(<<Passed(c)>> \o old.items)
    [] c.op = "pop_value" ->
         PyList(Without(old.items,
                  IF c.index < 0 THEN c.index + Len(old.items) ELSE c.index))
\* the arguments of a list mutator are good for the list old
ListArgsGood(c, old) ==
  IF c.op = "pop_value"
    THEN -Len(old.items) <= c.index /\ c.index < Len(old.items)
    ELSE c.is_json => JsonLoads(c.value.s).ok

\* C12: on a configurable name that holds a list, append_value sets and
\* returns old ++ [x], prepend_value [x] ++ old, pop_value with an index in
\* range old without the element at the index (negative from the end), x
\* being the JSON-decoded value with is_json; the result is in memory, in
\* the round-trip document and in the file, replaced once; such a call
\* fails only when the file update fails.
C12_ListMutators ==
  \A p \in Procs :
    LET c == call[p]
        key == meta_data[p].config_invocation_key
        old == DictGet(c.pre_data, c.name)
    IN (st[p] = "ready" /\ Finished(c)
        /\ c.op \in {"append_value", "prepend_value", "pop_value"}
        /\ c.name \in Range(configurable_keys[p])
        /\ old.kind = "list" /\ ListArgsGood(c, old)) =>
         IF c.outcome = "returned"
           THEN /\ c.ret = ListResult(c, old)
                /\ GetAttr(p, c.name).v = c.ret
                /\ DictGet(RtConfig(cfg_file_dat_rt[p], key), c.name) = c.ret
                /\ CfgText(p) = Dump(cfg_file_dat_rt[p])
                /\ c.replaced = 1
           ELSE c.error = "ConfigChangeFileUpdateError"

\* a decoded list appended as one element
C12_Witness ==
  /\ call[1].op = "append_value" /\ call[1].outcome = "returned"
  /\ call[1].is_json
  /\ call[1].ret = PyList(<<PyStr("a"), PyList(<<PyStr("a")>>)>>)

\* C13: pop_value on a configurable name that holds a list of length n,
\* with an index outside [-n, n), raises ConfigChangePopIndexError made
\* with the length n and the index, and touches nothing.
C13_PopIndexOutOfRange ==
  \A p \in Procs :
    LET c == call[p]
        old == DictGet(c.pre_data, c.name)
    IN (Finished(c) /\ c.op = "pop_value"
        /\ c.name \in Range(configurable_keys[p])
        /\ old.kind = "list" /\ ~ListArgsGood(c, old)) =>
         /\ c.outcome = "raised"
         /\ c.error = "ConfigChangePopIndexError"
         /\ c.info.length = Len(old.items) /\ c.info.index = c.index
         /\ Untouched(p, c)

\* an index too far below zero for a list that is not empty
C13_Witness ==
  /\ call[1].op = "pop_value" /\ call[1].index = -3
  /\ call[1].error = "ConfigChangePopIndexError"
  /\ call[1].info.length = 2

\* C16: set_value, append_value and prepend_value with is_json and a
\* string that is not JSON raise ConfigChangeInvalidJSONError made with the
\* string when the name is configurable, and ConfigChangeInvalidError when
\* it is not; in both cases nothing is touched.
C16_InvalidJsonRejected ==
  \A p \in Procs :
    LET c == call[p] IN
    (Finished(c) /\ c.op \in {"set_value", "append_value", "prepend_value"}
     /\ c.is_json /\ ~JsonLoads(c.value.s).ok) =>
       /\ c.outcome = "raised"
       /\ Untouched(p, c)
       /\ c.stage = "prepare"
       /\ IF c.name \in Range(configurable_keys[p])
            THEN /\ c.error = "ConfigChangeInvalidJSONError"
                 /\ c.info.json_str = c.value.s
            ELSE c.error = "ConfigChangeInvalidError"

C16_Witness ==
  /\ call[1].op = "prepend_value" /\ call[1].name = "environment_sources"
  /\ call[1].error = "ConfigChangeInvalidJSONError"
  /\ call[1].info.json_str = "["

\* one step leaves the active profile's name, every other profile and the
\* rest of the round-trip document as they are
SameProfile(p) ==
  LET key == meta_data[p].config_invocation_key
      rt == cfg_file_dat_rt[p]
      rt2 == cfg_file_dat_rt'[p]
  IN st[p] = "ready" =>
       /\ meta_data'[p].config_invocation_key = key
       /\ rt2.machine = rt.machine
       /\ Len(rt2.configs) = Len(rt.configs)
       /\ \A i \in DOMAIN rt.configs :
            /\ rt2.configs[i].k = rt.configs[i].k
            /\ rt2.configs[i].v.invocation = rt.configs[i].v.invocation
            /\ rt.configs[i].k # key => rt2.configs[i] = rt.configs[i]
       /\ configured_data'[p] # configured_data[p] =>
            DictEq(configured_data'[p], RtConfig(rt2, key))

\* C17: once a loader is ready, no step of any call changes the name of
\* its active profile, and a change of the round-trip document is a change
\* of the config of that profile only.
C17_ActiveProfileFixed == [][\A p \in Procs : SameProfile(p)]_vars

\* a change persisted with another profile in the document
C17_Witness ==
  /\ st[1] = "ready" /\ meta_data[1].config_invocation_key = "A"
  /\ cfg_file_dat_rt[1].configs[1].k = "B"
  /\ call[1].op = "set_value" /\ call[1].outcome = "returned"
  /\ call[1].replaced = 1

\* the entries of a mapping other than name, in their order
Others(m, name) == IF Has(m, name) THEN DelItem(m, name) ELSE m

\* document d1 differs from d0 in nothing but the entry name of the config
\* of profile key
FrameKept(d1, d0, key, name) ==
  /\ d1.machine = d0.machine
  /\ Len(d1.configs) = Len(d0.configs)
  /\ \A i \in DOMAIN d0.configs :
       /\ d1.configs[i].k = d0.configs[i].k
       /\ d1.configs[i].v.shape = d0.configs[i].v.shape
       /\ d1.configs[i].v.invocation = d0.configs[i].v.invocation
       /\ d0.configs[i].k # key => d1.configs[i] = d0.configs[i]
       /\ Others(d1.configs[i].v.config, name) =
            Others(d0.configs[i].v.config, name)

\* C24: after a mutation of name that succeeded and was persisted, the
\* round-trip document and the file differ from what they were before the
\* call in the entry name of the active profile's config only: machine,
\* the other profiles, the invocations and the other keys of the active
\* config keep their values and their order; and a loaded document that
\* no call has changed dumps to the text that was read.
C24_OnlyNameChanges ==
  \A p \in Procs :
    LET c == call[p]
        key == meta_data[p].config_invocation_key
    IN /\ (st[p] = "ready" /\ c.op \in Mutators /\ Finished(c)
            /\ c.outcome = "returned" /\ c.replaced = 1) =>
            /\ FrameKept(cfg_file_dat_rt[p], c.pre_rt, key, c.name)
            /\ Load(c.pre_file).status = "ok"
            /\ Load(CfgText(p)).status = "ok"
            /\ FrameKept(Load(CfgText(p)).doc, Load(c.pre_file).doc, key, c.name)
       /\ (st[p] = "ready" /\ c.op = "") =>
            Dump(cfg_file_dat_rt[p]) = meta_data[p].config_file_contents

(***************************************************************************)
(* Loading alone, over many documents: a directory without a file, the    *)
(* document without profiles, and every document of one or two profiles    *)
(* whose match mappings come from Matches, under either run-time info.     *)
(***************************************************************************)
Matches ==
  { <<>>,
    << [k |-> "working_dir", v |-> PyStr("x")] >>,
    << [k |-> "working_dir", v |-> PyStr("y")] >>,
    << [k |-> "working_dir", v |-> PyStr("x")],
       [k |-> "is_frozen", v |-> PyBool("True")] >>,
    << [k |-> "working_dir", v |-> PyStr("x")],
       [k |-> "is_venv", v |-> PyBool("True")] >>,
    << [k |-> "executable_name", v |-> PyStr("hpcflow")] >> }

ProfileWith(e, match) == [e EXCEPT !.v.invocation.match = match]

LoadDocs ==
  {Doc("host", <<>>)}
  \cup
  {Doc("host", <<ProfileWith(e, m)>>) :
     e \in {ProfileA, ProfileB}, m \in Matches}
  \cup
  {Doc("host", <<ProfileWith(o[1], m1), ProfileWith(o[2], m2)>>) :
     o \in {<<ProfileA, ProfileB>>, <<ProfileB, ProfileA>>},
     m1 \in Matches, m2 \in Matches}

InitLoad ==
  /\ \E wd \in {"x", "y"} :
       /\ run_time_info = RunTimeInfo(wd)
       /\ \/ dir = NoFiles /\ ino = NoText
          \/ \E d \in LoadDocs :
               /\ dir = [NoFiles EXCEPT !["config.yaml"] = 1]
               /\ ino = [NoText EXCEPT ![1] = Dump(d)]
  /\ InitCommon

NextLoad == LoadConfig(1) \/ Get(1, "log_directory")

SpecLoad == InitLoad /\ [][NextLoad]_vars

\* every pair of the match mapping equals the attribute of the run-time info
AllPairsEqual(rti, match) ==
  \A j \in 1..Len(match) :
    Has(rti, match[j].k) /\ PyEq(GetItem(rti, match[j].k), match[j].v)
\* the places of the first profile, in document order, all of whose pairs
\* are equal: one place or none
FirstMatching(rti, cs) ==
  {i \in 1..Len(cs) :
     /\ AllPairsEqual(rti, cs[i].v.invocation.match)
     /\ \A j \in 1..(i - 1) : ~AllPairsEqual(rti, cs[j].v.invocation.match)}
\* every attribute a match mapping names is one the run-time info has
AttributesKnown(rti, cs) ==
  \A i \in 1..Len(cs) : \A j \in 1..Len(cs[i].v.invocation.match) :
    Has(rti, cs[i].v.invocation.match[j].k)
Selected(p, rti, cs) ==
  /\ st[p] = "ready" =>
       \E i \in FirstMatching(rti, cs) :
         /\ meta_data[p].config_invocation_key = cs[i].k
         /\ configured_data[p] = cs[i].v.config
  /\ (FirstMatching(rti, cs) # {} /\ AttributesKnown(rti, cs)) =>
       st[p] = "ready"

C11_NoMatchRaisesIncompatible ==
  \A p \in Procs :
    (st[p] \in {"ready", "failed"}
     /\ Load(FileText(MainConfigPath)).status = "ok"
     /\ FirstMatching(run_time_info,
                      Load(FileText(MainConfigPath)).doc.configs) = {}) =>
      /\ st[p] = "failed"
      /\ load_error[p] = "ConfigFileInvocationIncompatibleError"

\* the built-in defaults, as the claim names them
BuiltinDefaults ==
  << [k |-> "log_directory", v |-> PyStr("logs")],
     [k |-> "environment_sources", v |-> PyList(<<>>)],
     [k |-> "task_schema_sources", v |-> PyList(<<>>)] >>
\* the document of one profile named default that matches everything and
\* holds the built-in defaults, on the machine of the model
DefaultDoc ==
  Doc("host",
      << [k |-> "default",
          v |-> Profile("ok", PyNone, <<>>, BuiltinDefaults)] >>)
\* a load from a directory without a configuration file
LoadsDefault(p) ==
  (st[p] = "init" /\ st'[p] # "init"
   /\ ~IsFile("config.yaml") /\ ~IsFile("config.yml")) =>
     /\ IsFile("config.yaml")' \/ IsFile("config.yml")'
     /\ FileText(MainConfigPath)' = Dump(DefaultDoc)
     /\ Load(Dump(DefaultDoc)) = [status |-> "ok", doc |-> DefaultDoc]
     /\ cfg_file_dat_rt'[p] = DefaultDoc
     /\ st'[p] = "ready"
     /\ meta_data'[p].config_invocation_key = "default"
     /\ \A i \in DOMAIN BuiltinDefaults :
          GetAttr(p, BuiltinDefaults[i].k)' =
            [err |-> "", v |-> BuiltinDefaults[i].v]

\* C19: a load from a directory with neither config.yaml nor config.yml
\* writes a document of one profile named default with an empty match
\* mapping and the built-in defaults, succeeds under every run-time info,
\* makes default the active profile, and get returns each built-in default.
C19_DefaultGenerated == [][\A p \in Procs : LoadsDefault(p)]_vars

\* the generated default serves a process whose directory no profile names
C19_Witness ==
  /\ st[1] = "ready" /\ run_time_info = RunTimeInfo("y")
  /\ meta_data[1].config_invocation_key = "default"
  /\ call[1].op = "get" /\ call[1].ret = PyStr("logs")

(***************************************************************************)
(* Other schema sets: a built-in schema that gives log_directory no type,  *)
(* alone or with a supplied schema that wants log_directory present and a  *)
(* string, over documents of one profile that matches every invocation.    *)
(***************************************************************************)
LooseSchema ==
  Schema(<<"log_directory", "environment_sources", "task_schema_sources">>,
         << <<"environment_sources", "list">>,
            <<"task_schema_sources", "list">> >>,
         {})
NamedSchema ==
  Schema(<<"log_directory", "environment_sources", "task_schema_sources">>,
         << <<"log_directory", "str">> >>,
         {"log_directory"})

\* the config mappings of the one profile
KindConfigs ==
  { << [k |-> "log_directory", v |-> PyStr("logs")],
       [k |-> "environment_sources", v |-> PyList(<<PyStr("a")>>)] >>,
    << [k |-> "log_directory", v |-> PyList(<<>>)],
       [k |-> "environment_sources", v |-> PyList(<<>>)] >>,
    << [k |-> "log_directory", v |-> PyStr("logs")],
       [k |-> "environment_sources", v |-> PyStr("out")] >>,
    << [k |-> "log_directory", v |-> PyStr("logs")],
       [k |-> "bogus", v |-> PyStr("x")] >>,
    << [k |-> "environment_sources", v |-> PyList(<<>>)] >> }

InitKinds ==
  /\ \E c \in KindConfigs :
       /\ dir = [NoFiles EXCEPT !["config.yaml"] = 1]
       /\ ino = [NoText EXCEPT ![1] =
                   Dump(Doc("host", <<[k |-> "A",
                                       v |-> Profile("ok", PyNone, <<>>, c)]>>))]
  /\ run_time_info = RunTimeInfo("x")
  /\ builtin_schema = LooseSchema
  /\ extra_schema \in {<<>>, <<NamedSchema>>}
  /\ faults = 0
  /\ InitObj

KindNames == {"log_directory", "environment_sources"}
KindInputs ==
  {<<PyStr("out"), FALSE>>, <<PyList(<<>>), FALSE>>,
   <<PyStr("{\"a\": 1}"), TRUE>>, <<PyStr("1"), TRUE>>}

StepKinds(p) ==
  \/ LoadConfig(p)
  \/ \E name \in KindNames \cup {"bogus"} : Get(p, name)
  \/ \E name \in KindNames, in \in KindInputs : SetValue(p, name, in[1], in[2])
  \/ \E name \in KindNames : UnsetValue(p, name)
  \/ \E name \in KindNames : AppendValue(p, name, PyStr("a"), FALSE)
  \/ \E name \in KindNames : PrependValue(p, name, PyStr("a"), FALSE)
  \/ \E name \in KindNames, index \in {-1, 0} : PopValue(p, name, index)
  \/ OpenTmp(p)
  \/ WriteChunk(p)
  \/ CloseTmp(p)
  \/ Replace(p)

NextKinds == StepKinds(1)

SpecKinds == InitKinds /\ [][NextKinds]_vars

\* C14: append_value, prepend_value and pop_value on a configurable name
\* whose value is not a list (a string, a number, a mapping, no value) raise
\* ConfigChangeTypeInvalidError and touch nothing.
C14_NonListRaisesTypeError ==
  \A p \in Procs :
    LET c == call[p]
        old == DictGet(c.pre_data, c.name)
    IN (Finished(c)
        /\ c.op \in {"append_value", "prepend_value", "pop_value"}
        /\ c.name \in Range(configurable_keys[p])
        /\ (c.is_json => JsonLoads(c.value.s).ok)
        /\ old.kind # "list") =>
         /\ c.outcome = "raised"
         /\ c.error = "ConfigChangeTypeInvalidError"
         /\ Untouched(p, c)

\* C15: unset_value on a configurable name warns and touches nothing when
\* the name is not set; raises ConfigChangeValidationError and touches
\* nothing when a schema rejects the mapping without the name; and
\* otherwise removes the key, and nothing else, from the config mapping,
\* from the active profile of the round-trip document and from the file,
\* after which get returns None.
C15_UnsetValue ==
  \A p \in Procs :
    LET c == call[p]
        key == meta_data[p].config_invocation_key
    IN (st[p] = "ready" /\ Finished(c) /\ c.op = "unset_value"
        /\ c.name \in Range(configurable_keys[p])) =>
         IF ~Has(c.pre_data, c.name)
           THEN c.outcome = "returned" /\ c.warned /\ Untouched(p, c)
         ELSE IF ~ValidateConfiguredData(meta_data[p].config_schemas,
                                         DelItem(c.pre_data, c.name))
           THEN /\ c.outcome = "raised"
                /\ c.error = "ConfigChangeValidationError"
                /\ Untouched(p, c)
         ELSE /\ c.outcome = "returned" /\ ~c.warned
              /\ configured_data[p] = DelItem(c.pre_data, c.name)
              /\ RtConfig(cfg_file_dat_rt[p], key) =
                   DelItem(RtConfig(c.pre_rt, key), c.name)
              /\ Load(CfgText(p)) =
                   [status |-> "ok", doc |-> cfg_file_dat_rt[p]]
              /\ GetAttr(p, c.name) = [err |-> "", v |-> PyNone]

\* a key removed from a mapping of two, the other key kept
C15_Witness ==
  /\ call[1].op = "unset_value" /\ call[1].name = "environment_sources"
  /\ call[1].outcome = "returned" /\ call[1].replaced = 1
  /\ configured_data[1] = << [k |-> "log_directory", v |-> PyStr("logs")] >>
  /\ extra_schema # <<>>

\* C18: the keys of the config mapping, of the active profile's config in
\* the round-trip document and of the same in the file are configurable
\* keys, the configurable keys are the allowed keys of the schemas, and a
\* get that returns a value was given a configurable or a meta-data name.
C18_KeysAreConfigurable ==
  \A p \in Procs :
    st[p] = "ready" =>
      LET key == meta_data[p].config_invocation_key
          loaded == Load(CfgText(p))
          allowed == Range(configurable_keys[p])
      IN /\ allowed = UNION {Range(meta_data[p].config_schemas[i].allowed) :
                               i \in DOMAIN meta_data[p].config_schemas}
         /\ Keys(configured_data[p]) \subseteq allowed
         /\ Keys(RtConfig(cfg_file_dat_rt[p], key)) \subseteq allowed
         /\ loaded.status = "ok" /\ Has(loaded.doc.configs, key)
         /\ Keys(RtConfig(loaded.doc, key)) \subseteq allowed
         /\ (call[p].op = "get" /\ call[p].outcome = "returned") =>
              call[p].name \in allowed \cup MetaKeys

\* a set_value has written a mapping under one of the two keys the store
\* and the file hold
C18_Witness ==
  /\ st[1] = "ready" /\ pc[1] = "idle"
  /\ call[1].op = "set_value" /\ call[1].outcome = "returned"
  /\ call[1].replaced = 1
  /\ DictGet(configured_data[1], "log_directory").kind = "map"
  /\ Keys(configured_data[1]) = {"log_directory", "environment_sources"}
  /\ Keys(RtConfig(Load(CfgText(1)).doc, meta_data[1].config_invocation_key)) =
       {"log_directory", "environment_sources"}

\* C20: with two schemas, a load succeeds exactly when every schema
\* accepts the selected config mapping and fails with
\* ConfigValidationError otherwise; the mapping a mutator leaves is
\* accepted by every schema, and a candidate that some schema rejects, the
\* first or the second, ends the call with ConfigChangeValidationError.
C20_EverySchemaMustAccept ==
  \A p \in Procs :
    LET c == call[p]
        schemas == <<builtin_schema>> \o extra_schema
    IN Len(schemas) > 1 =>
       /\ (st[p] \in {"ready", "failed"} /\ c.op = "") =>
            IF ValidateConfiguredData(schemas,
                 Load(FileText("config.yaml")).doc.configs[1].v.config)
              THEN st[p] = "ready"
              ELSE st[p] = "failed" /\ load_error[p] = "ConfigValidationError"
       /\ (st[p] = "ready" /\ pc[p] = "idle") =>
            \A i \in DOMAIN schemas : SchemaValid(schemas[i], configured_data[p])
       /\ (c.op \in Mutators /\ Finished(c) /\ c.stage = "modify"
           /\ \E i \in DOMAIN schemas : ~SchemaValid(schemas[i], Candidate(c))) =>
            /\ c.outcome = "raised"
            /\ c.error = "ConfigChangeValidationError"

(***************************************************************************)
(* _resolve_config_dir over arguments, environments and directory trees.   *)
(***************************************************************************)
DirArgs ==
  {NoDir, StrDir(<<>>), StrDir(<<"d">>), StrDir(<<"d", "e">>),
   StrDir(<<"/", "srv">>)}

DirEnvs ==
  {[set |-> FALSE, value |-> <<>>], [set |-> TRUE, value |-> <<"~", ".cfg">>],
   [set |-> TRUE, value |-> <<"e">>], [set |-> TRUE, value |-> <<"e", "f">>]}

BaseDirs == {<<"/">>, Home, Cwd}
OptDirs ==
  {Cwd \o <<"d">>, Cwd \o <<"d", "e">>, Cwd \o <<"e">>,
   Home \o <<".hpcflow">>, Home \o <<".cfg">>, <<"/", "srv">>}

\* the directory trees: every directory has its parent
DirTrees ==
  {BaseDirs \cup S : S \in {T \in SUBSET OptDirs :
                               \A d \in T : Parent(d) \in BaseDirs \cup T}}

InitDir ==
  /\ \E a \in DirArgs, e \in DirEnvs, t \in DirTrees,
        f \in {{}, {Cwd \o <<"e">>}} :
       /\ f \cap t = {}
       /\ resolve = [NoResolve EXCEPT !.config_dir = a, !.env = e,
                                      !.dirs = t, !.pre_dirs = t, !.files = f]
  /\ workflow = NoWorkflow
  /\ dir = NoFiles /\ ino = NoText
  /\ run_time_info = RunTimeInfo("x")
  /\ builtin_schema = BuiltinSchema
  /\ extra_schema = <<>>
  /\ faults = 0
  /\ InitLoader

NextDir == ResolveConfigDirCall

SpecDir == InitDir /\ [][NextDir]_vars

\* an argument that was given, and the directory the precedence names
Given(config_dir) == config_dir.kind = "str" /\ config_dir.path # <<>>
ExpectedDir(r) ==
  Absolute(IF Given(r.config_dir) THEN r.config_dir.path
           ELSE IF r.env.set THEN ExpandUser(r.env.value)
           ELSE ExpandUser(CONFIG_DIR_DEFAULT))

\* C21: the directory is the argument if given, else the value of
\* HPCFLOW_CONFIG_DIR if set, else ~/.hpcflow with the home expanded; the
\* call returns its absolute path and the directory exists afterwards,
\* created when it was missing (no regular file being in its place).
C21_ConfigDirResolved ==
  (resolve.done /\ ExpectedDir(resolve) \notin resolve.files) =>
    /\ resolve.error = ""
    /\ resolve.ret = ExpectedDir(resolve)
    /\ resolve.ret \in resolve.dirs
    /\ resolve.pre_dirs \subseteq resolve.dirs

(***************************************************************************)
(* make_workflow over its three sources.                                   *)
(***************************************************************************)
InitApi ==
  /\ \E pl \in {PyNone, PyList(<<>>), PyList(<<PyStr("p.yml")>>)},
        jf \in {PyNone, PyStr(""), PyStr("wf.json")},
        js \in {PyNone, PyStr(""), PyStr("{\"a\": 1}"), PyStr("[")},
        fs \in {{}, {"wf.json"}} :
       workflow = [NoWorkflow EXCEPT !.profile_list = pl, !.json_file = jf,
                                     !.json_str = js, !.json_files = fs]
  /\ resolve = NoResolve
  /\ dir = NoFiles /\ ino = NoText
  /\ run_time_info = RunTimeInfo("x")
  /\ builtin_schema = BuiltinSchema
  /\ extra_schema = <<>>
  /\ faults = 0
  /\ InitLoader

NextApi ==
  \/ MakeWorkflowCheck
  \/ MakeProject
  \/ LoadWorkflowDict
  \/ OpenSession
  \/ AddWorkflow

SpecApi == InitApi /\ [][NextApi]_vars

\* the arguments that are supplied
Supplied(v) == v.kind # "null"
NumSupplied(w) ==
    (IF Supplied(w.profile_list) THEN 1 ELSE 0)
  + (IF Supplied(w.json_file) THEN 1 ELSE 0)
  + (IF Supplied(w.json_str) THEN 1 ELSE 0)

\* C22: with more than one of profile_list, json_file and json_str
\* supplied the call raises ValueError and has made no project, no session
\* and no Workflow; with at most one supplied, the workflow comes from
\* json_str or json_file when that one is supplied and from the YAML
\* profiles otherwise.
C22_OnlyOneSource ==
  LET w == workflow IN
  /\ (NumSupplied(w) > 1 /\ w.pc # "start") =>
       /\ w.pc = "raised" /\ w.error = "ValueError"
       /\ ~w.project /\ w.sessions = 0 /\ w.added = 0
  /\ (NumSupplied(w) <= 1 /\ w.source # "") =>
       w.source = IF Supplied(w.json_str) THEN "json_str"
                  ELSE IF Supplied(w.json_file) THEN "json_file"
                  ELSE "profiles"

(***************************************************************************)
(* Loading documents whose profiles may lack the invocation block, may     *)
(* match or not, and may hold a config the schema rejects.                 *)
(***************************************************************************)
OrderMatches ==
  { <<>>,
    << [k |-> "working_dir", v |-> PyStr("x")] >>,
    << [k |-> "working_dir", v |-> PyStr("y")] >>,
    << [k |-> "executable_name", v |-> PyStr("hpcflow")] >> }

OrderConfigs ==
  { << [k |-> "log_directory", v |-> PyStr("logs")] >>,
    << [k |-> "log_directory", v |-> PyList(<<>>)] >> }

OrderProfiles(name) ==
  {[k |-> name, v |-> Profile(shape, PyNone, m, c)] :
     shape \in {"ok", "no_invocation"}, m \in OrderMatches, c \in OrderConfigs}

OrderDocs ==
  {Doc("host", <<a>>) : a \in OrderProfiles("A")}
  \cup
  {Doc("host", <<a, b>>) : a \in OrderProfiles("A"), b \in OrderProfiles("B")}

InitOrder ==
  /\ \E d \in OrderDocs :
       /\ Load(Dump(d)) = [status |-> "ok", doc |-> d]
       /\ dir = [NoFiles EXCEPT !["config.yaml"] = 1]
       /\ ino = [NoText EXCEPT ![1] = Dump(d)]
  /\ run_time_info = RunTimeInfo("x")
  /\ InitCommon

NextOrder == LoadConfig(1) \/ Get(1, "log_directory")

SpecOrder == InitOrder /\ [][NextOrder]_vars

\* the outcome of a load that checks the whole document, then selects,
\* then validates the selected config
OrderOutcome(loaded, rti, schemas) ==
  IF ~FileSchemaValid(loaded) THEN "ConfigFileValidationError"
  ELSE IF FirstMatching(rti, loaded.doc.configs) = {}
    THEN "ConfigFileInvocationIncompatibleError"
  ELSE IF \E i \in FirstMatching(rti, loaded.doc.configs) :
            ~ValidateConfiguredData(schemas, loaded.doc.configs[i].v.config)
    THEN "ConfigValidationError"
  ELSE ""

\* C23: a load fails with ConfigFileValidationError when the document
\* fails the file schema, whatever its profiles match; else with
\* ConfigFileInvocationIncompatibleError when no profile matches, whatever
\* the configs hold; else with ConfigValidationError when the selected
\* config is rejected; the configs of the other profiles are not looked
\* at, and the store is ready exactly when none of the three fails.
C23_LoadCheckOrder ==
  \A p \in Procs :
    st[p] \in {"ready", "failed"} =>
      LET e == OrderOutcome(Load(FileText("config.yaml")), run_time_info,
                            <<builtin_schema>> \o extra_schema)
      IN /\ load_error[p] = e
         /\ st[p] = "ready" <=> e = ""

(***************************************************************************)
(* A directory that holds config.yaml, config.yml, both or neither.        *)
(***************************************************************************)
YamlDoc == Doc("host", <<ProfileA>>)
YmlDoc == Doc("other", <<ProfileA>>)

InitFiles ==
  /\ \E yaml \in BOOLEAN, yml \in BOOLEAN :
       /\ dir = [NoFiles EXCEPT !["config.yaml"] = IF yaml THEN 1 ELSE 0,
                                !["config.yml"] = IF yml THEN 2 ELSE 0]
       /\ ino = [NoText EXCEPT ![1] = IF yaml THEN Dump(YamlDoc) ELSE <<>>,
                               ![2] = IF yml THEN Dump(YmlDoc) ELSE <<>>]
  /\ run_time_info = RunTimeInfo("x")
  /\ InitCommon

StepFiles(p) ==
  \/ LoadConfig(p)
  \/ \E name \in {"log_directory", "config_file_path", "config_file_contents"} :
       Get(p, name)
  \/ \E in \in SetInputs : SetValue(p, "log_directory", in[1], in[2])
  \/ UnsetValue(p, "environment_sources")
  \/ AppendValue(p, "environment_sources", PyStr("a"), FALSE)
  \/ OpenTmp(p)
  \/ WriteChunk(p)
  \/ CloseTmp(p)
  \/ Replace(p)
  \/ IOFails(p)

NextFiles == StepFiles(1)

SpecFiles == InitFiles /\ [][NextFiles]_vars

\* one step of loader p: the file a load chooses, and the file a persist
\* replaces
FileChosen(p) ==
  LET path == meta_data[p].config_file_path
      neither == ~IsFile("config.yaml") /\ ~IsFile("config.yml")
  IN /\ (st[p] = "init" /\ st'[p] # "init") =>
          /\ st'[p] = "ready"
          /\ meta_data'[p].config_file_path =
               IF IsFile("config.yaml") \/ neither THEN "config.yaml"
               ELSE "config.yml"
          /\ IF neither
               THEN /\ dir'["config.yaml"] # 0 /\ dir'["config.yml"] = 0
                    /\ ino'[dir'["config.yaml"]] = Dump(DEFAULT_CONFIG)
               ELSE dir' = dir /\ ino' = ino
     /\ st[p] = "ready" =>
          /\ meta_data'[p].config_file_path = path
          /\ \A f \in Files : dir'[f] # dir[f] => f \in {path, TmpPath(path)}
          /\ call'[p].replaced = call[p].replaced + 1 =>
               /\ dir'[path] = dir[TmpPath(path)] /\ dir'[path] # dir[path]
               /\ dir'[TmpPath(path)] = 0

\* C25: a load uses config.yaml when it exists, else config.yml when it
\* exists, and when neither exists writes the default document as
\* config.yaml and uses that; the path is recorded as config_file_path,
\* stays the same, and a persist replaces the file at exactly that path.
C25_FileSelection == [][\A p \in Procs : FileChosen(p)]_vars

\* one step of loader p: what a load records as meta-data, and what any
\* later step leaves of it
MetaKept(p) ==
  /\ (st[p] = "init" /\ st'[p] = "ready") =>
       /\ meta_data'[p].config_file_contents =
            ino'[dir'[meta_data'[p].config_file_path]]
       /\ meta_data'[p].config_dir = ResolveConfigDir
       /\ meta_data'[p].config_schemas = <<builtin_schema>> \o extra_schema
       /\ configurable_keys'[p] = ConfigurableKeys(<<builtin_schema>> \o extra_schema)
  /\ st[p] = "ready" =>
       /\ meta_data'[p] = meta_data[p]
       /\ configurable_keys'[p] = configurable_keys[p]
       /\ (call'[p] # call[p] /\ call'[p].op = "get"
           /\ call'[p].name \in MetaKeys) =>
            /\ call'[p].outcome = "returned"
            /\ call'[p].ret = MetaVal(call'[p].name)

\* C26: the meta-data of a loader are what the load recorded (the
\* contents item is the text read at load time); no step of a mutator,
\* whether it succeeds or fails, changes a meta-data item or the
\* configurable keys; and get on a meta-data name returns that item.
C26_MetaDataKept == [][\A p \in Procs : MetaKept(p)]_vars

\* get("config_file_contents") after the file has been replaced: the item
\* is not the text of the file any more
C26_Witness ==
  /\ st[1] = "ready"
  /\ call[1].op = "get" /\ call[1].name = "config_file_contents"
  /\ call[1].outcome = "returned"
  /\ call[1].ret = MetaVal("config_file_contents")
  /\ renamed = 1
  /\ CfgText(1) # meta_data[1].config_file_contents

(***************************************************************************)
(* Two processes load the same file and change it at the same time.        *)
(***************************************************************************)
Init2 ==
  /\ dir = [NoFiles EXCEPT !["config.yaml"] = 1]
  /\ ino = [NoText EXCEPT ![1] = Dump(Doc("host", <<ProfileB, ProfileA>>))]
  /\ run_time_info = RunTimeInfo("y")
  /\ InitCommon

Step2(p) ==
  \/ LoadConfig(p)
  \/ SetValue(p, "log_directory", PyStr("out"), FALSE)
  \/ UnsetValue(p, "environment_sources")
  \/ OpenTmp(p)
  \/ WriteChunk(p)
  \/ CloseTmp(p)
  \/ Replace(p)

Next2 == \E p \in Procs : Step2(p)

Spec2 == Init2 /\ [][Next2]_vars

\* C6: with two processes changing the same file, the configuration file
\* path holds a whole document at every step, a call that reaches
\* os.replace succeeds, and when no call is running the file holds the
\* document of the process that renamed last.
C6_RenameIsTheOnlyRace ==
  /\ Load(FileText("config.yaml")).status = "ok"
  /\ \A p \in Procs :
       (call[p].op \in Mutators /\ call[p].outcome = "raised") =>
         call[p].error # "ConfigChangeFileUpdateError"
  /\ (renamed # 0 /\ \A p \in Procs : pc[p] = "idle") =>
       FileText("config.yaml") = Dump(cfg_file_dat_rt[renamed])

====
